---- MODULE Spec2Model ----
(***************************************************************************)
(* A model of the TCP Emitter NodeJS client: an EventEmitter whose         *)
(* listener registrations, removals and emissions are mirrored to a TCP    *)
(* Emitter server as subscribe / unsubscribe / broadcast frames, and whose *)
(* inbound frames are dispatched to the local listeners.                   *)
(*                                                                         *)
(* Strings are sequences of one-character strings, so that the frame       *)
(* encoders, String.prototype.split and JSON.parse are modelled by what    *)
(* they do to the characters.  A JSON value is a pair <<kind, content>>:   *)
(* the kind is "num", "str", "true", "false", "null", "arr" or "obj", the  *)
(* content its digits, characters, elements or <<key, value>> members.     *)
(*                                                                         *)
(* Event names are ordinary application events: the EventEmitter's own     *)
(* meta events ('newListener', 'removeListener', 'error') are not among    *)
(* them.  Listener bodies perform no client operation.                     *)
(***************************************************************************)
EXTENDS Integers, Sequences, FiniteSets, TLC

----------------------------------------------------------------------------
(* Characters and string helpers *)

Q == "\""

\* The characters of a TLA+ record of literal pieces, concatenated.
RECURSIVE Flatten(_)
Flatten(ss) ==
    IF ss = <<>> THEN <<>> ELSE Head(ss) \o Flatten(Tail(ss))

\* s[from..to] as a string (empty when from > to).
Slice(s, from, to) ==
    IF from > to THEN <<>> ELSE SubSeq(s, from, to)

\* Whether string d occurs in s at position i.
OccursAt(s, d, i) ==
    /\ i >= 1
    /\ i + Len(d) - 1 <= Len(s)
    /\ \A k \in 1..Len(d) : s[i + k - 1] = d[k]

\* String.prototype.indexOf from position `from` (1-based); 0 when absent.
RECURSIVE IndexOfFrom(_, _, _)
IndexOfFrom(s, d, from) ==
    IF from + Len(d) - 1 > Len(s) THEN 0
    ELSE IF OccursAt(s, d, from) THEN from
    ELSE IndexOfFrom(s, d, from + 1)

\* String.prototype.split with a non-empty separator: the substrings
\* between the successive, non-overlapping occurrences of the separator.
RECURSIVE SplitFrom(_, _, _)
SplitFrom(s, d, from) ==
    LET i == IndexOfFrom(s, d, from)
    IN  IF i = 0 THEN << Slice(s, from, Len(s)) >>
        ELSE << Slice(s, from, i - 1) >> \o SplitFrom(s, d, i + Len(d))

Split(s, d) == SplitFrom(s, d, 1)

----------------------------------------------------------------------------
(* JSON values, JSON.stringify and JSON.parse *)

\* A value is <<kind, content>>; the kind is compared first.
Num(ds)  == <<"num", ds>>
Str(cs)  == <<"str", cs>>
True     == <<"true", <<>>>>
False    == <<"false", <<>>>>
Null     == <<"null", <<>>>>
Arr(vs)  == <<"arr", vs>>
Obj(ms)  == <<"obj", ms>>
Kind(x)  == x[1]
Val(x)   == x[2]

Digits == {"0", "1", "2", "3", "4", "5", "6", "7", "8", "9"}

\* The control characters JSON writes as a backslash and a letter, by
\* letter ("U+0008" stands for the backspace, which a TLA+ string has no
\* notation for).
Control ==
    [b |-> "U+0008", f |-> "\f", n |-> "\n", r |-> "\r", t |-> "\t"]

\* The body of a JSON string literal: quote, backslash and the control
\* characters are escaped.
RECURSIVE Escape(_)
Escape(cs) ==
    IF cs = <<>> THEN <<>>
    ELSE (IF Head(cs) \in {Q, "\\"} THEN <<"\\", Head(cs)>>
          ELSE IF \E l \in DOMAIN Control : Head(cs) = Control[l]
          THEN <<"\\", CHOOSE l \in DOMAIN Control : Head(cs) = Control[l]>>
          ELSE <<Head(cs)>>)
         \o Escape(Tail(cs))

Quote(cs) == <<Q>> \o Escape(cs) \o <<Q>>

\* JSON.stringify of a JSON value (no indentation).
RECURSIVE Stringify(_)
RECURSIVE StringifyElems(_)
RECURSIVE StringifyMembers(_)
Stringify(x) ==
    CASE Kind(x) = "num"   -> Val(x)
      [] Kind(x) = "str"   -> Quote(Val(x))
      [] Kind(x) = "true"  -> <<"t", "r", "u", "e">>
      [] Kind(x) = "false" -> <<"f", "a", "l", "s", "e">>
      [] Kind(x) = "null"  -> <<"n", "u", "l", "l">>
      [] Kind(x) = "arr"   -> <<"[">> \o StringifyElems(Val(x)) \o <<"]">>
      [] Kind(x) = "obj"   -> <<"{">> \o StringifyMembers(Val(x)) \o <<"}">>

StringifyElems(vs) ==
    IF vs = <<>> THEN <<>>
    ELSE Stringify(Head(vs))
         \o (IF Len(vs) > 1 THEN <<",">> ELSE <<>>)
         \o StringifyElems(Tail(vs))

StringifyMembers(ms) ==
    IF ms = <<>> THEN <<>>
    ELSE Quote(Head(ms)[1]) \o <<":">> \o Stringify(Head(ms)[2])
         \o (IF Len(ms) > 1 THEN <<",">> ELSE <<>>)
         \o StringifyMembers(Tail(ms))

\* A parse step's result: the value read and the position after it, or a
\* failure (JSON.parse throws a SyntaxError).
Ok(val, pos) == [ok |-> TRUE, val |-> val, pos |-> pos]
Bad          == [ok |-> FALSE, val |-> Null, pos |-> 0]

RECURSIVE SkipWs(_, _)
SkipWs(s, p) ==
    IF p <= Len(s) /\ s[p] = " " THEN SkipWs(s, p + 1) ELSE p

\* Whether the literal word w stands at position p.
Word(s, p, w, val) ==
    IF OccursAt(s, w, p) THEN Ok(val, p + Len(w)) ELSE Bad

\* The characters of a string literal whose opening quote is at p - 1
\* (the inputs of the model hold no \u escape).
RECURSIVE ParseChars(_, _, _)
ParseChars(s, p, acc) ==
    IF p > Len(s) THEN Bad
    ELSE IF s[p] = Q THEN Ok(Str(acc), p + 1)
    ELSE IF s[p] = "\\"
         THEN IF p + 1 <= Len(s) /\ s[p + 1] \in {Q, "\\", "/"}
              THEN ParseChars(s, p + 2, Append(acc, s[p + 1]))
              ELSE IF p + 1 <= Len(s) /\ s[p + 1] \in DOMAIN Control
              THEN ParseChars(s, p + 2, Append(acc, Control[s[p + 1]]))
              ELSE Bad
    ELSE ParseChars(s, p + 1, Append(acc, s[p]))

RECURSIVE ParseDigits(_, _, _)
ParseDigits(s, p, acc) ==
    IF p <= Len(s) /\ s[p] \in Digits
    THEN ParseDigits(s, p + 1, Append(acc, s[p]))
    ELSE Ok(Num(acc), p)

\* A number: 0, or a non-zero digit followed by digits.
ParseNumber(s, p) ==
    IF s[p] = "0" THEN Ok(Num(<<"0">>), p + 1) ELSE ParseDigits(s, p, <<>>)

RECURSIVE ParseValue(_, _)
RECURSIVE ParseElems(_, _, _)
RECURSIVE ParseMembers(_, _, _)
ParseValue(s, p0) ==
    LET p == SkipWs(s, p0)
    IN  IF p > Len(s) THEN Bad
        ELSE CASE s[p] = "{" ->
                    LET q == SkipWs(s, p + 1)
                    IN  IF q <= Len(s) /\ s[q] = "}"
                        THEN Ok(Obj(<<>>), q + 1)
                        ELSE ParseMembers(s, q, <<>>)
               [] s[p] = "[" ->
                    LET q == SkipWs(s, p + 1)
                    IN  IF q <= Len(s) /\ s[q] = "]"
                        THEN Ok(Arr(<<>>), q + 1)
                        ELSE ParseElems(s, q, <<>>)
               [] s[p] = Q -> ParseChars(s, p + 1, <<>>)
               [] s[p] \in Digits -> ParseNumber(s, p)
               [] s[p] = "t" -> Word(s, p, <<"t", "r", "u", "e">>, True)
               [] s[p] = "f" -> Word(s, p, <<"f", "a", "l", "s", "e">>, False)
               [] s[p] = "n" -> Word(s, p, <<"n", "u", "l", "l">>, Null)
               [] OTHER -> Bad

\* The elements of an array after "[", up to and including "]".
ParseElems(s, p, acc) ==
    LET r == ParseValue(s, p)
        q == SkipWs(s, r.pos)
    IN  IF ~r.ok \/ q > Len(s) THEN Bad
        ELSE IF s[q] = "]" THEN Ok(Arr(Append(acc, r.val)), q + 1)
        ELSE IF s[q] = "," THEN ParseElems(s, q + 1, Append(acc, r.val))
        ELSE Bad

\* The members of an object after "{", up to and including "}".
ParseMembers(s, p0, acc) ==
    LET p == SkipWs(s, p0)
        k == IF p <= Len(s) /\ s[p] = Q THEN ParseChars(s, p + 1, <<>>) ELSE Bad
        c == SkipWs(s, k.pos)
        r == IF k.ok /\ c <= Len(s) /\ s[c] = ":" THEN ParseValue(s, c + 1) ELSE Bad
        q == SkipWs(s, r.pos)
        ms == Append(acc, <<Val(k.val), r.val>>)
    IN  IF ~r.ok \/ q > Len(s) THEN Bad
        ELSE IF s[q] = "}" THEN Ok(Obj(ms), q + 1)
        ELSE IF s[q] = "," THEN ParseMembers(s, q + 1, ms)
        ELSE Bad

\* JSON.parse: the whole text is one value; anything else throws.
JSONParse(s) ==
    LET r == ParseValue(s, 1)
    IN  IF r.ok /\ SkipWs(s, r.pos) = Len(s) + 1 THEN r ELSE Bad

\* utils.parseJSON: JSON.parse, with an empty object when it throws.
parseJSON(str) ==
    LET r == JSONParse(str)
    IN  IF r.ok THEN r.val ELSE Obj(<<>>)

\* The value of property `key` of a parsed payload (the last member of
\* that name wins); Absent when the value has no such property.
Absent == <<"undefined", <<>>>>

RECURSIVE Lookup(_, _)
Lookup(ms, key) ==
    IF ms = <<>> THEN Absent
    ELSE IF ms[Len(ms)][1] = key THEN ms[Len(ms)][2]
    ELSE Lookup(SubSeq(ms, 1, Len(ms) - 1), key)

----------------------------------------------------------------------------
(* Frame encoders (utils.js) *)

Chars_type      == <<"{", Q, "t", "y", "p", "e", Q, ":", Q>>
Chars_event     == <<Q, ",", Q, "e", "v", "e", "n", "t", Q, ":", Q>>
Chars_args      == <<Q, ",", Q, "a", "r", "g", "s", Q, ":">>
Chars_subscribe == <<"s", "u", "b", "s", "c", "r", "i", "b", "e">>
Chars_broadcast == <<"b", "r", "o", "a", "d", "c", "a", "s", "t">>

\* A delimiter property that is not passed (undefined), and the value of
\* the parameter `delimiter = '@@@'` for what is passed.
NoDelimiter == <<"undefined">>

DelimiterParam(delim) ==
    IF delim = NoDelimiter THEN <<"@", "@", "@">> ELSE delim

\* Faulty variant: the subscribe payload without its delimiter.
createSubscribe_noDelimiter(event, delim) ==
    Chars_type \o Chars_subscribe \o Chars_event \o event \o <<Q, "}">>

\* `{"type":"subscribe","event":"${event}"}${delimiter}`
createSubscribe(event, delim) ==
    Chars_type \o Chars_subscribe \o Chars_event \o event \o <<Q, "}">>
    \o DelimiterParam(delim)

\* Faulty variant: the unsubscribe payload has the type of a subscribe.
createUnsubscribe_asSubscribe(event, delim) ==
    Chars_type \o Chars_subscribe \o Chars_event \o event \o <<Q, "}">>
    \o DelimiterParam(delim)

\* `{"type":"unsubscribe","event":"${event}"}${delimiter}`
createUnsubscribe(event, delim) ==
    Chars_type \o <<"u", "n">> \o Chars_subscribe \o Chars_event \o event
    \o <<Q, "}">> \o DelimiterParam(delim)

\* Faulty variant: the arguments are encoded in reverse order.
createBroadcast_reversed(event, args, delim) ==
    Chars_type \o Chars_broadcast \o Chars_event \o event \o Chars_args
    \o Stringify(Arr([i \in 1..Len(args) |-> args[Len(args) + 1 - i]]))
    \o <<"}">> \o DelimiterParam(delim)

\* `{"type":"broadcast","event":"${event}","args":${JSON.stringify(args)}}${delimiter}`
createBroadcast(event, args, delim) ==
    Chars_type \o Chars_broadcast \o Chars_event \o event \o Chars_args
    \o Stringify(Arr(args)) \o <<"}">> \o DelimiterParam(delim)

----------------------------------------------------------------------------
(* The EventEmitter's `_events` object: the event names in insertion order, *)
(* each with its listeners.  A listener entry is the function, whether it  *)
(* is wrapped by `once`, and whether that wrapper has fired.               *)

Listener(f)    == [fn |-> f, once |-> FALSE, fired |-> FALSE]
OnceWrap(f)    == [fn |-> f, once |-> TRUE, fired |-> FALSE]

Has(events, type) == \E i \in 1..Len(events) : events[i].type = type

Get(events, type) ==
    IF Has(events, type)
    THEN events[CHOOSE i \in 1..Len(events) : events[i].type = type].list
    ELSE <<>>

\* events[type] = list: in place for an existing key, else a new last key.
Put(events, type, list) ==
    IF Has(events, type)
    THEN [i \in 1..Len(events) |->
            IF events[i].type = type THEN [type |-> type, list |-> list]
            ELSE events[i]]
    ELSE Append(events, [type |-> type, list |-> list])

\* delete events[type]
Delete(events, type) == SelectSeq(events, LAMBDA e : e.type # type)

\* A property key that is an array index: the decimal text of an integer,
\* without a leading zero. Its value.
IsIndex(k) ==
    /\ k # <<>>
    /\ \A i \in 1..Len(k) : k[i] \in Digits
    /\ Len(k) = 1 \/ k[1] # "0"

RECURSIVE IndexValue(_)
IndexValue(k) ==
    IF k = <<>> THEN 0
    ELSE 10 * IndexValue(SubSeq(k, 1, Len(k) - 1))
         + (CHOOSE n \in 0..9 :
              <<"0", "1", "2", "3", "4", "5", "6", "7", "8", "9">>[n + 1]
              = k[Len(k)])

\* The index keys of set S in ascending order of their values.
RECURSIVE Ascending(_)
Ascending(S) ==
    IF S = {} THEN <<>>
    ELSE LET m == CHOOSE k \in S :
                    \A j \in S : IndexValue(k) <= IndexValue(j)
         IN  <<m>> \o Ascending(S \ {m})

\* Faulty variant: every key in the order the keys were created.
Keys_creationOrder(events) == [i \in 1..Len(events) |-> events[i].type]

\* Reflect.ownKeys(events): the keys that are array indices in ascending
\* order, then the other keys in the order they were created.
Keys(events) ==
    LET all == [i \in 1..Len(events) |-> events[i].type]
    IN  Ascending({all[i] : i \in {j \in 1..Len(all) : IsIndex(all[j])}})
        \o SelectSeq(all, LAMBDA k : ~IsIndex(k))

RemoveAt(list, pos) == SubSeq(list, 1, pos - 1) \o SubSeq(list, pos + 1, Len(list))

\* The last position of `list` holding function f (plain or wrapped by
\* once); 0 when there is none.
LastIndexOf(list, f) ==
    LET hits == {i \in 1..Len(list) : list[i].fn = f}
    IN  IF hits = {} THEN 0 ELSE CHOOSE i \in hits : \A j \in hits : j <= i

----------------------------------------------------------------------------
(* State *)

VARIABLES
    options,       \* the opts createTCPEmitterClient was called with
    delimiter,     \* client.delimiter
    protoEvents,   \* `_events` of the EventEmitter that is the client's prototype
    hasOwn,        \* whether the client has an `_events` property of its own
    ownEvents,     \* the client's own `_events` (when hasOwn)
    eventsCount,   \* the client's `_eventsCount`
    conn,          \* the socket: "Disconnected", "Connecting" or "Connected"
    connectHook,   \* whether the socket's once('connect') listener is registered
    peername,      \* whether the socket holds the peer's address it has read
                   \* (net.Socket keeps it once read, until the next connect)
    op,            \* the handler that ran last, with what it was called on
    opWrites,      \* the payloads of the socket.write calls of that handler
    opCalls,       \* the listener invocations of that handler, in order
    opThrew,       \* whether that handler ended by throwing
    opRet,         \* what that handler returned to its caller
    wire,          \* the characters the server has written that the socket
                   \* has not yet handed to the client in a 'data' event
    sent,          \* the payloads of the frames the server has written
    decoded,       \* the payloads parsePayload has cut out of the 'data'
                   \* events of that stream, in order
    fragment       \* the text last received without a delimiter after it,
                   \* and whether its connection has ended since; the
                   \* client keeps no such text, it is recorded to tell
                   \* what the client does with the text that follows

vars == <<options, delimiter, protoEvents, hasOwn, ownEvents, eventsCount,
          conn, connectHook, peername, op, opWrites, opCalls, opThrew, opRet,
          wire, sent, decoded, fragment>>

stream == <<wire, sent, decoded, fragment>>

\* Bounds of the model: the listeners the client holds at a time, and the
\* frames the server writes to the stream.
MaxListeners == 2
MaxFrames == 2

Events   == {<<"a">>, <<"b">>}
Fns      == {"f", "g"}
ArgLists == {<<>>, <<Num(<<"1">>), Str(<<"2">>), True, Obj(<< <<<<"n">>, Str(<<"l">>)>> >>)>>}

StreamArgLists == {<<Num(<<"1">>)>>}

DefaultDelimiter == <<"@", "@", "@">>

\* The socket has a handle that is connected to a peer.
Connected == conn = "Connected"

\* What a function returns: nothing, the emitter it was called on, or
\* whether the event had listeners.
Undefined == "undefined"
This == "this"
Bool(b) == IF b THEN "true" ELSE "false"

----------------------------------------------------------------------------
(* The machine a handler runs on: the two `_events` objects, the count,    *)
(* whether the socket is connected and whether it holds the peer's         *)
(* address, and what the handler has written, invoked, thrown and          *)
(* returned so far.                                                        *)

Cur ==
    [proto |-> protoEvents, own |-> ownEvents, hasOwn |-> hasOwn,
     count |-> eventsCount, connected |-> Connected, peername |-> peername,
     writes |-> <<>>, calls |-> <<>>, threw |-> FALSE, ret |-> Undefined]

\* The value a function ends with.
Return(M, v) == [M EXCEPT !.ret = v]

\* socket.remoteAddress !== undefined.  The getter reads the address of
\* the peer from the connected handle and keeps it in the socket; once
\* kept, it is what the getter returns, also after the connection has
\* closed, until socket.connect clears it.
RemoteAddress(M) == M.connected \/ M.peername

\* The socket after remoteAddress has been read.
ReadRemoteAddress(M) == [M EXCEPT !.peername = M.peername \/ M.connected]

\* this._events with `this` the client: its own, else the prototype's.
Visible(M) == IF M.hasOwn THEN M.own ELSE M.proto

SetVisible(M, events) ==
    IF M.hasOwn THEN [M EXCEPT !.own = events] ELSE [M EXCEPT !.proto = events]

\* this._events = ObjectCreate(null): the client gets an object of its own,
\* the object it saw before is left as it is.
NewEvents(M) == [M EXCEPT !.own = <<>>, !.hasOwn = TRUE]

Write(M, payload) == [M EXCEPT !.writes = Append(@, payload)]

(* EventEmitter.prototype functions, called with `this` the client *)

\* _addListener(target, type, listener, prepend)
EE_addListener(M, type, entry, prepend) ==
    LET existing == Get(Visible(M), type)
    IN  Return(IF existing = <<>>
               THEN [SetVisible(M, Put(Visible(M), type, <<entry>>))
                       EXCEPT !.count = M.count + 1]
               ELSE SetVisible(M, Put(Visible(M), type,
                        IF prepend THEN <<entry>> \o existing
                        ELSE Append(existing, entry))),
               This)

\* removeListener(type, listener), the listener found at position pos of
\* the list (0: not found).
EE_removeListenerAt(M, type, pos) ==
    LET list == Get(Visible(M), type)
    IN  Return(IF list = <<>> \/ pos = 0 THEN M
               ELSE IF Len(list) = 1
                    THEN IF M.count - 1 = 0
                         THEN NewEvents([M EXCEPT !.count = 0])
                         ELSE [SetVisible(M, Delete(Visible(M), type))
                                 EXCEPT !.count = M.count - 1]
               ELSE SetVisible(M, Put(Visible(M), type, RemoveAt(list, pos))),
               This)

\* removeListener(type, f): the last entry that is f or wraps f.
EE_removeListener(M, type, f) ==
    EE_removeListenerAt(M, type, LastIndexOf(Get(Visible(M), type), f))

\* removeAllListeners(type), called with one argument.
EE_removeAllListeners(M, type) ==
    Return(IF ~Has(Visible(M), type) THEN M
           ELSE IF M.count - 1 = 0
                THEN NewEvents([M EXCEPT !.count = 0])
                ELSE [SetVisible(M, Delete(Visible(M), type))
                        EXCEPT !.count = M.count - 1],
           This)

\* listenerCount(type)
EE_listenerCount(M, type) == Len(Get(Visible(M), type))

\* eventNames()
EE_eventNames(M) == IF M.count > 0 THEN Keys(Visible(M)) ELSE <<>>

(* tcp-emitter-client.js *)

\* The reduce of subscribe: the subscribe payloads of the events, joined.
RECURSIVE SubscribePayload(_, _)
SubscribePayload(events, delim) ==
    IF events = <<>> THEN <<>>
    ELSE createSubscribe(Head(events), delim)
         \o SubscribePayload(Tail(events), delim)

\* The reduce of unsubscribe: the unsubscribe payloads, joined.
RECURSIVE UnsubscribePayload(_, _)
UnsubscribePayload(events, delim) ==
    IF events = <<>> THEN <<>>
    ELSE createUnsubscribe(Head(events), delim)
         \o UnsubscribePayload(Tail(events), delim)

\* Faulty variant: subscribe without the check of socket.remoteAddress.
subscribe_ungated(M, events) ==
    LET payload == SubscribePayload(events, delimiter)
    IN  Return(IF Len(payload) > 0 THEN Write(M, payload) ELSE M, Undefined)

\* Faulty variant: subscribe writes its payload even when it is empty.
subscribe_emptyWrite(M, events) ==
    IF ~RemoteAddress(M) THEN Return(M, Undefined)
    ELSE Return(Write(ReadRemoteAddress(M),
                      SubscribePayload(events, delimiter)), Undefined)

\* Faulty variant: subscribe makes one write for each event.
subscribe_perEvent(M, events) ==
    IF ~RemoteAddress(M) THEN Return(M, Undefined)
    ELSE Return([ReadRemoteAddress(M) EXCEPT !.writes =
                   @ \o [i \in 1..Len(events) |->
                           createSubscribe(events[i], delimiter)]],
                Undefined)

\* subscribe(...events)
subscribe(M, events) ==
    IF ~RemoteAddress(M) THEN Return(M, Undefined)
    ELSE LET M1      == ReadRemoteAddress(M)
             payload == SubscribePayload(events, delimiter)
         IN  Return(IF Len(payload) > 0 THEN Write(M1, payload) ELSE M1,
                    Undefined)

\* unsubscribe(...events)
unsubscribe(M, events) ==
    IF ~RemoteAddress(M) THEN Return(M, Undefined)
    ELSE LET M1      == ReadRemoteAddress(M)
             payload == UnsubscribePayload(events, delimiter)
         IN  Return(IF Len(payload) > 0 THEN Write(M1, payload) ELSE M1,
                    Undefined)

\* broadcast(event, ...args)
broadcast(M, event, args) ==
    IF ~RemoteAddress(M) THEN Return(M, Undefined)
    ELSE Return(Write(ReadRemoteAddress(M),
                      createBroadcast(event, args, delimiter)), Undefined)

\* Faulty variant: a subscribe for every listener added.
AddHook_always(M, event) == subscribe(M, <<event>>)

\* The override's check after an add function has run.
AddHook(M, event) ==
    IF EE_listenerCount(M, event) = 1 THEN subscribe(M, <<event>>)
    ELSE Return(M, Undefined)

\* Faulty variant: an unsubscribe for every listener removed.
RemoveHook_always(M, event) == unsubscribe(M, <<event>>)

\* The override's check after a remove function has run.
RemoveHook(M, event) ==
    IF EE_listenerCount(M, event) = 0 THEN unsubscribe(M, <<event>>)
    ELSE Return(M, Undefined)

\* client.on / client.prependListener, given the entry to add.
client_on(M, event, entry) ==
    AddHook(EE_addListener(M, event, entry, FALSE), event)

client_prependListener(M, event, entry) ==
    AddHook(EE_addListener(M, event, entry, TRUE), event)

\* client.once: EventEmitter's once calls this.on, which is the client's
\* override, with the wrapper; then the once override checks the count too.
client_once(M, event, f) ==
    AddHook(client_on(M, event, OnceWrap(f)), event)

client_prependOnceListener(M, event, f) ==
    AddHook(client_prependListener(M, event, OnceWrap(f)), event)

\* Faulty variant: removing a listener removes every listener of the event.
client_removeListener_all(M, event, f) ==
    RemoveHook(EE_removeAllListeners(M, event), event)

\* client.removeListener(event, f)
client_removeListener(M, event, f) ==
    RemoveHook(EE_removeListener(M, event, f), event)

\* Faulty variant: a once wrapper removes itself with EventEmitter's
\* removeListener, and no check of the count follows.
client_removeWrapper_unchecked(M, event, pos) ==
    EE_removeListenerAt(M, event, pos)

\* client.removeListener(event, wrapFn), called by a once wrapper that is
\* at position pos of the client's list (0: it is not in that list).
client_removeWrapper(M, event, pos) ==
    RemoveHook(EE_removeListenerAt(M, event, pos), event)

\* Faulty variant: removeAllListeners removes the first listener only.
client_removeAllListeners_first(M, event) ==
    client_removeWrapper(M, event, 1)

\* client.removeAllListeners(event)
client_removeAllListeners(M, event) ==
    RemoveHook(EE_removeAllListeners(M, event), event)

\* The wrapper of a once listener sets this.fired: the entry at position
\* pos of event type's list in the prototype's object is marked.
MarkFired(M, type, pos) ==
    LET list == Get(M.proto, type)
    IN  IF pos \in 1..Len(list)
        THEN [M EXCEPT !.proto = Put(M.proto, type,
                 [list EXCEPT ![pos] = [@ EXCEPT !.fired = TRUE]])]
        ELSE M

Call(M, f, type, args) ==
    [M EXCEPT !.calls = Append(@, [fn |-> f, event |-> type, args |-> args])]

\* EventEmitter.prototype.emit's loop over the copy it took of the list.
\* target is "client" (this is the client) or "proto" (this is the client's
\* prototype); removed counts the entries of the copy that have left the
\* client's list since the copy was taken.
RECURSIVE EmitLoop(_, _, _, _, _, _, _)
EmitLoop(M, target, type, args, copy, i, removed) ==
    IF i > Len(copy) THEN M
    ELSE LET e == copy[i]
         IN  IF ~e.once
             THEN EmitLoop(Call(M, e.fn, type, args), target, type, args,
                           copy, i + 1, removed)
             ELSE IF e.fired
             THEN EmitLoop(M, target, type, args, copy, i + 1, removed)
             ELSE LET live == target = "client" \/ ~M.hasOwn
                      pos  == IF live THEN i - removed ELSE 0
                      M1   == client_removeWrapper(M, type, pos)
                      M2   == IF ~live THEN MarkFired(M1, type, i)
                              ELSE IF ~M.hasOwn /\ M1.hasOwn
                                   THEN MarkFired(M1, type, pos)
                              ELSE M1
                  IN  EmitLoop(Call(M2, e.fn, type, args), target, type, args,
                               copy, i + 1, removed + (IF live THEN 1 ELSE 0))

\* EventEmitter.prototype.emit.call(target, type, ...args)
EE_emit(M, target, type, args) ==
    LET events == IF target = "client" THEN Visible(M) ELSE M.proto
    IN  Return(EmitLoop(M, target, type, args, Get(events, type), 1, 0),
               Bool(Get(events, type) # <<>>))

\* Faulty variant: the broadcast is sent before the local listeners run.
client_emit_broadcastFirst(M, event, args) ==
    EE_emit(broadcast(M, event, args), "client", event, args)

\* Faulty variant: the broadcast is sent and the local listeners do not run.
client_emit_remoteOnly(M, event, args) == broadcast(M, event, args)

\* client.emit(event, ...args)
client_emit(M, event, args) ==
    broadcast(EE_emit(M, "client", event, args), event, args)

\* Faulty variant: the replay reads the event names of the prototype.
syncSubscriptions_proto(M) == subscribe(M, Keys(M.proto))

\* syncSubscriptions()
syncSubscriptions(M) == subscribe(M, EE_eventNames(M))

\* What `payload.args || []` spreads to: the elements of an array, the
\* characters of a non-empty string, nothing for a falsy value; a value
\* that is truthy and not iterable makes the spread throw.
Falsy(x) ==
    \/ Kind(x) \in {"undefined", "null", "false"}
    \/ x = Num(<<"0">>)
    \/ x = Str(<<>>)

Spreads(x) == Falsy(x) \/ Kind(x) \in {"arr", "str"}

Spread(x) ==
    IF Falsy(x) THEN <<>>
    ELSE IF Kind(x) = "arr" THEN Val(x)
    ELSE [i \in 1..Len(Val(x)) |-> Str(<<Val(x)[i]>>)]

\* Faulty variant: an event of any type is used as the name of the event,
\* as a property key: an array of one string is the key that string is.
RECURSIVE Dispatch_anyEvent(_, _)
Dispatch_anyEvent(M, payloads) ==
    IF payloads = <<>> THEN M
    ELSE LET payload == Head(payloads)
             event   == IF Kind(payload) = "obj"
                        THEN Lookup(Val(payload), <<"e", "v", "e", "n", "t">>)
                        ELSE Absent
             args    == IF Kind(payload) = "obj"
                        THEN Lookup(Val(payload), <<"a", "r", "g", "s">>)
                        ELSE Absent
             key     == IF Kind(event) = "arr" /\ Len(Val(event)) = 1
                        THEN Val(Val(event)[1])
                        ELSE Val(event)
         IN  IF Kind(event) = "undefined"
             THEN Dispatch_anyEvent(M, Tail(payloads))
             ELSE Dispatch_anyEvent(EE_emit(M, "proto", key, Spread(args)),
                                    Tail(payloads))

\* Faulty variant: a payload whose type is not "broadcast" is ignored.
RECURSIVE Dispatch_broadcastOnly(_, _)
Dispatch_broadcastOnly(M, payloads) ==
    IF payloads = <<>> THEN M
    ELSE LET payload == Head(payloads)
             type    == IF Kind(payload) = "obj"
                        THEN Lookup(Val(payload), <<"t", "y", "p", "e">>)
                        ELSE Absent
             event   == IF Kind(payload) = "obj"
                        THEN Lookup(Val(payload), <<"e", "v", "e", "n", "t">>)
                        ELSE Absent
             args    == IF Kind(payload) = "obj"
                        THEN Lookup(Val(payload), <<"a", "r", "g", "s">>)
                        ELSE Absent
         IN  IF Kind(payload) = "null" THEN [M EXCEPT !.threw = TRUE]
             ELSE IF Kind(event) # "str" \/ type # Str(Chars_broadcast)
             THEN Dispatch_broadcastOnly(M, Tail(payloads))
             ELSE IF ~Spreads(args) THEN [M EXCEPT !.threw = TRUE]
             ELSE Dispatch_broadcastOnly(
                    EE_emit(M, "proto", Val(event), Spread(args)),
                    Tail(payloads))

\* The forEach of parsePayload over the parsed payloads.
RECURSIVE Dispatch(_, _)
Dispatch(M, payloads) ==
    IF payloads = <<>> THEN M
    ELSE LET payload == Head(payloads)
             event   == IF Kind(payload) = "obj"
                        THEN Lookup(Val(payload), <<"e", "v", "e", "n", "t">>)
                        ELSE Absent
             args    == IF Kind(payload) = "obj"
                        THEN Lookup(Val(payload), <<"a", "r", "g", "s">>)
                        ELSE Absent
         IN  IF Kind(payload) = "null" THEN [M EXCEPT !.threw = TRUE]
             ELSE IF Kind(event) # "str" THEN Dispatch(M, Tail(payloads))
             ELSE IF ~Spreads(args) THEN [M EXCEPT !.threw = TRUE]
             ELSE Dispatch(EE_emit(M, "proto", Val(event), Spread(args)),
                           Tail(payloads))

\* parsePayload's payloadsStr: the pieces of the data between delimiters,
\* without the last piece.
payloadsStr(data) ==
    LET split == Split(data, delimiter)
    IN  SubSeq(split, 1, Len(split) - 1)

\* Faulty variant: the data received is written back to the socket.
parsePayload_echo(M, data) ==
    LET strs == payloadsStr(data)
    IN  Return(Write(Dispatch(M, [i \in 1..Len(strs) |-> parseJSON(strs[i])]),
                     data),
               Undefined)

\* Faulty variant: the data is handled after the text that was received
\* before it without a delimiter.
parsePayload_carrying(M, data) ==
    LET strs == payloadsStr(fragment.text \o data)
    IN  Return(Dispatch(M, [i \in 1..Len(strs) |-> parseJSON(strs[i])]),
               Undefined)

\* parsePayload(data)
parsePayload(M, data) ==
    LET strs == payloadsStr(data)
    IN  Return(Dispatch(M, [i \in 1..Len(strs) |-> parseJSON(strs[i])]),
               Undefined)

----------------------------------------------------------------------------
(* Actions: one per call of the client's interface or socket event *)

\* The number of listeners in the client's `_events`.
RECURSIVE Total(_)
Total(events) ==
    IF events = <<>> THEN 0 ELSE Len(Head(events).list) + Total(Tail(events))

\* The handler that ran: its name and the event it was called with.
Op(kind, event) == [kind |-> kind, event |-> event]

NoOp == Op("init", <<>>)

Commit(M, o) ==
    /\ protoEvents' = M.proto
    /\ ownEvents' = M.own
    /\ hasOwn' = M.hasOwn
    /\ eventsCount' = M.count
    /\ opWrites' = M.writes
    /\ opCalls' = M.calls
    /\ opThrew' = M.threw
    /\ opRet' = M.ret
    /\ peername' = M.peername
    /\ op' = o

\* Faulty variant: the delimiter option is not read.
init_defaultDelimiter(opts) ==
    /\ options = opts
    /\ delimiter = DefaultDelimiter
    /\ peername = FALSE
    /\ opRet = Undefined
    /\ protoEvents = <<>>
    /\ hasOwn = FALSE
    /\ ownEvents = <<>>
    /\ eventsCount = 0
    /\ conn = "Disconnected"
    /\ connectHook = TRUE
    /\ op = Op("init", <<>>)
    /\ opWrites = <<>>
    /\ opCalls = <<>>
    /\ opThrew = FALSE
    /\ wire = <<>>
    /\ sent = <<>>
    /\ decoded = <<>>
    /\ fragment = [text |-> <<>>, closed |-> FALSE]

\* createTCPEmitterClient(opts): init sets the delimiter to opts.delimiter
\* when that is a string, to '@@@' otherwise.
init(opts) ==
    /\ options = opts
    /\ delimiter = IF opts.isString THEN opts.delimiter ELSE DefaultDelimiter
    /\ peername = FALSE
    /\ opRet = Undefined
    /\ protoEvents = <<>>
    /\ hasOwn = FALSE
    /\ ownEvents = <<>>
    /\ eventsCount = 0
    /\ conn = "Disconnected"
    /\ connectHook = TRUE
    /\ op = NoOp
    /\ opWrites = <<>>
    /\ opCalls = <<>>
    /\ opThrew = FALSE
    /\ wire = <<>>
    /\ sent = <<>>
    /\ decoded = <<>>
    /\ fragment = [text |-> <<>>, closed |-> FALSE]

Options == {[isString |-> FALSE, delimiter |-> <<>>]}

Init == \E opts \in Options : init(opts)

CanAdd == Total(Visible(Cur)) < MaxListeners

On(e, f) ==
    /\ CanAdd
    /\ Commit(client_on(Cur, e, Listener(f)), Op("on", e))
    /\ UNCHANGED <<options, delimiter, conn, connectHook, stream>>

PrependListener(e, f) ==
    /\ CanAdd
    /\ Commit(client_prependListener(Cur, e, Listener(f)),
              Op("prependListener", e))
    /\ UNCHANGED <<options, delimiter, conn, connectHook, stream>>

Once(e, f) ==
    /\ CanAdd
    /\ Commit(client_once(Cur, e, f), Op("once", e))
    /\ UNCHANGED <<options, delimiter, conn, connectHook, stream>>

PrependOnceListener(e, f) ==
    /\ CanAdd
    /\ Commit(client_prependOnceListener(Cur, e, f),
              Op("prependOnceListener", e))
    /\ UNCHANGED <<options, delimiter, conn, connectHook, stream>>

RemoveListener(e, f) ==
    /\ Commit(client_removeListener(Cur, e, f), Op("removeListener", e))
    /\ UNCHANGED <<options, delimiter, conn, connectHook, stream>>

RemoveAllListeners(e) ==
    /\ Commit(client_removeAllListeners(Cur, e),
              Op("removeAllListeners", e))
    /\ UNCHANGED <<options, delimiter, conn, connectHook, stream>>

Emit(e, args) ==
    /\ Commit(client_emit(Cur, e, args), Op("emit", e))
    /\ UNCHANGED <<options, delimiter, conn, connectHook, stream>>

\* client.connect(..): the socket starts connecting.
Connect ==
    /\ conn = "Disconnected"
    /\ conn' = "Connecting"
    /\ Commit([Cur EXCEPT !.peername = FALSE], Op("connect", <<>>))
    /\ UNCHANGED <<options, delimiter, connectHook, stream>>

\* The socket emits 'connect': the listener init registered with once runs
\* if it is still registered, and is removed.
SocketConnect ==
    /\ conn = "Connecting"
    /\ conn' = "Connected"
    /\ connectHook' = FALSE
    /\ LET M == [Cur EXCEPT !.connected = TRUE]
       IN  Commit(IF connectHook THEN syncSubscriptions(M) ELSE M,
                  Op("socketConnect", <<>>))
    /\ UNCHANGED <<options, delimiter, stream>>

\* Faulty variant: the client unsubscribes from its events when the
\* connection ends.
SocketClose_unsubscribing ==
    /\ conn # "Disconnected"
    /\ conn' = "Disconnected"
    /\ Commit(unsubscribe(Cur, EE_eventNames(Cur)), Op("socketClose", <<>>))
    /\ fragment' = [fragment EXCEPT !.closed = (fragment.text # <<>>)]
    /\ UNCHANGED <<options, delimiter, connectHook, wire, sent, decoded>>

\* The connection ends or fails: client.end(..), the server, an error.
SocketClose ==
    /\ conn # "Disconnected"
    /\ conn' = "Disconnected"
    /\ Commit(Cur, Op("socketClose", <<>>))
    /\ fragment' = [fragment EXCEPT !.closed = (fragment.text # <<>>)]
    /\ UNCHANGED <<options, delimiter, connectHook, wire, sent, decoded>>

\* The frame a TCP Emitter server sends for a broadcast of event x.
InboundFrame(x, args) ==
    <<"{", Q, "e", "v", "e", "n", "t", Q, ":">> \o Quote(x)
    \o <<",", Q, "a", "r", "g", "s", Q, ":">> \o Stringify(Arr(args)) \o <<"}">>

\* The socket emits 'data' with one whole broadcast frame of event x.
SocketData(x, args) ==
    /\ conn = "Connected"
    /\ Commit(parsePayload(Cur, InboundFrame(x, args) \o delimiter),
              Op("socketData", x))
    /\ UNCHANGED <<options, delimiter, conn, connectHook, stream>>

\* The server writes a broadcast frame of event x to the connection.
ServerSend(x, args) ==
    /\ conn = "Connected"
    /\ Len(sent) < MaxFrames
    /\ wire' = wire \o InboundFrame(x, args) \o delimiter
    /\ sent' = Append(sent, InboundFrame(x, args))
    /\ UNCHANGED <<options, delimiter, protoEvents, hasOwn, ownEvents,
                   eventsCount, conn, connectHook, peername, op, opWrites,
                   opCalls, opThrew, opRet, decoded, fragment>>

\* The socket emits 'data' with the next k characters of the stream: TCP
\* hands the bytes over in pieces of any size.
SocketChunk(k) ==
    /\ conn = "Connected"
    /\ k \in 1..Len(wire)
    /\ LET data == SubSeq(wire, 1, k)
       IN  /\ Commit(parsePayload(Cur, data), Op("socketChunk", <<>>))
           /\ decoded' = decoded \o payloadsStr(data)
    /\ wire' = SubSeq(wire, k + 1, Len(wire))
    /\ UNCHANGED <<options, delimiter, conn, connectHook, sent, fragment>>

\* The client used with plain listeners, two functions.
Next ==
    \/ \E e \in Events, f \in Fns : On(e, f)
    \/ \E e \in Events, f \in Fns : PrependListener(e, f)
    \/ \E e \in Events, f \in Fns : RemoveListener(e, f)
    \/ \E e \in Events : RemoveAllListeners(e)
    \/ \E e \in Events, args \in ArgLists : Emit(e, args)
    \/ Connect
    \/ SocketConnect
    \/ SocketClose
    \/ \E x \in Events, args \in ArgLists : SocketData(x, args)

Spec == Init /\ [][Next]_vars

\* The client used with plain and once listeners of one function.
NextOnce ==
    \/ \E e \in Events : On(e, "f")
    \/ \E e \in Events : Once(e, "f")
    \/ \E e \in Events : PrependOnceListener(e, "f")
    \/ \E e \in Events, f \in Fns : RemoveListener(e, f)
    \/ \E e \in Events, args \in ArgLists : Emit(e, args)
    \/ Connect
    \/ SocketConnect
    \/ SocketClose
    \/ \E x \in Events, args \in ArgLists : SocketData(x, args)

SpecOnce == Init /\ [][NextOnce]_vars

\* A connected client and the byte stream of its connection.
NextStream ==
    \/ On(<<"a">>, "f")
    \/ Connect
    \/ SocketConnect
    \/ \E x \in Events, args \in StreamArgLists : ServerSend(x, args)
    \/ \E k \in 1..Len(wire) : SocketChunk(k)

SpecStream == Init /\ [][NextStream]_vars

\* Payload texts a server, or anything else at the other end of the
\* connection, can send.
\* an object without an event field: {"invalid":"a"}
Payload_invalid ==
    <<"{", Q, "i", "n", "v", "a", "l", "i", "d", Q, ":", Q, "a", Q, "}">>

\* a text that is not JSON: luca
Payload_notJSON ==
    <<"l", "u", "c", "a">>

\* the empty text
Payload_empty == <<>>

\* the JSON value null: null
Payload_null ==
    <<"n", "u", "l", "l">>

\* a JSON number: 5
Payload_number ==
    <<"5">>

\* a JSON string: "s"
Payload_string ==
    <<Q, "s", Q>>

\* a JSON array: [1]
Payload_array ==
    <<"[", "1", "]">>

\* an event that is a number: {"event":1}
Payload_eventNumber ==
    <<"{", Q, "e", "v", "e", "n", "t", Q, ":", "1", "}">>

\* an event that is an array holding an event name: {"event":["a"]}
Payload_eventArray ==
    <<"{", Q, "e", "v", "e", "n", "t", Q, ":", "[", Q, "a", Q, "]", "}">>

\* args that is a number: {"event":"a","args":1}
Payload_argsNumber ==
    <<"{", Q, "e", "v", "e", "n", "t", Q, ":", Q, "a", Q, ",", Q, "a", "r",
      "g", "s", Q, ":", "1", "}">>

\* args that is a string: {"event":"a","args":"xy"}
Payload_argsString ==
    <<"{", Q, "e", "v", "e", "n", "t", Q, ":", Q, "a", Q, ",", Q, "a", "r",
      "g", "s", Q, ":", Q, "x", "y", Q, "}">>

\* a frame without args: {"event":"a"}
Payload_noArgs ==
    <<"{", Q, "e", "v", "e", "n", "t", Q, ":", Q, "a", Q, "}">>

\* The payloads without an event field of string type.
NoEventPayloads ==
    {Payload_invalid, Payload_notJSON, Payload_empty, Payload_null,
     Payload_number, Payload_string, Payload_array, Payload_eventNumber,
     Payload_eventArray}

Payloads ==
    NoEventPayloads \cup {Payload_argsNumber, Payload_argsString, Payload_noArgs}

\* The socket emits 'data' with payload text p followed by the delimiter
\* and, when follow, by a well-formed frame of event a with no arguments
\* and the delimiter.
SocketRaw(p, follow) ==
    /\ conn = "Connected"
    /\ Commit(parsePayload(Cur,
                 p \o delimiter
                 \o (IF follow THEN InboundFrame(<<"a">>, <<>>) \o delimiter
                     ELSE <<>>)),
              Op(IF follow THEN "socketRawThen" ELSE "socketRaw", p))
    /\ UNCHANGED <<options, delimiter, conn, connectHook, stream>>

\* A connected client that is sent payloads of every kind.
NextInbound ==
    \/ \E e \in Events : On(e, "f")
    \/ Connect
    \/ SocketConnect
    \/ SocketClose
    \/ \E p \in Payloads, follow \in BOOLEAN : SocketRaw(p, follow)

SpecInbound == Init /\ [][NextInbound]_vars

\* The client's functions that add and remove listeners, in every state
\* of the connection: event a is given listeners by each of the add
\* functions, event b by on.
NextRegistry ==
    \/ \E e \in Events : On(e, "f")
    \/ PrependListener(<<"a">>, "g")
    \/ Once(<<"a">>, "f")
    \/ PrependOnceListener(<<"a">>, "f")
    \/ \E e \in Events, f \in Fns : RemoveListener(e, f)
    \/ \E e \in Events : RemoveAllListeners(e)
    \/ Connect
    \/ SocketConnect
    \/ SocketClose

SpecRegistry == Init /\ [][NextRegistry]_vars

\* The options a client is created with: none, a delimiter that is not a
\* string (the number 5), a delimiter that is a string.
DelimiterOptions ==
    {[isString |-> FALSE, delimiter |-> <<>>],
     [isString |-> FALSE, delimiter |-> <<"5">>],
     [isString |-> TRUE, delimiter |-> <<"!">>]}

InitDelimiter == \E opts \in DelimiterOptions : init(opts)

\* The socket emits 'data' with a well-formed frame of event a, without
\* arguments, followed by the text d.
SocketText(d) ==
    /\ conn = "Connected"
    /\ Commit(parsePayload(Cur, InboundFrame(<<"a">>, <<>>) \o d),
              Op("socketText", d))
    /\ UNCHANGED <<options, delimiter, conn, connectHook, stream>>

\* Clients created with each of the options, writing and receiving frames.
NextDelimiter ==
    \/ \E e \in Events : On(e, "f")
    \/ \E e \in Events : RemoveListener(e, "f")
    \/ \E e \in Events, args \in ArgLists : Emit(e, args)
    \/ Connect
    \/ SocketConnect
    \/ SocketClose
    \/ \E opts \in DelimiterOptions :
         SocketText(IF opts.isString THEN opts.delimiter ELSE DefaultDelimiter)

SpecDelimiter == InitDelimiter /\ [][NextDelimiter]_vars

\* {"type":"unsubscribe","event":"a"}
Payload_typeUnsubscribe ==
    Chars_type \o <<"u", "n">> \o Chars_subscribe \o Chars_event
    \o <<"a", Q, "}">>

\* Frames of event a with and without a type:
\*   {"type":"subscribe","event":"a","args":[1]}
\*   {"type":"broadcast","event":"a","args":[1]}
\*   {"type":5,"event":"a","args":[1]}
\*   {"type":"unsubscribe","event":"a"}
\*   {"event":"a","args":[1]}
\*   {"event":"a"}
TypedPayloads ==
    {Chars_type \o Chars_subscribe \o Chars_event
       \o <<"a", Q, ",", Q, "a", "r", "g", "s", Q, ":", "[", "1", "]", "}">>,
     Chars_type \o Chars_broadcast \o Chars_event
       \o <<"a", Q, ",", Q, "a", "r", "g", "s", Q, ":", "[", "1", "]", "}">>,
     <<"{", Q, "t", "y", "p", "e", Q, ":", "5", ",", Q, "e", "v", "e", "n",
       "t", Q, ":", Q, "a", Q, ",", Q, "a", "r", "g", "s", Q, ":", "[", "1",
       "]", "}">>,
     Payload_typeUnsubscribe,
     InboundFrame(<<"a">>, <<Num(<<"1">>)>>),
     Payload_noArgs}

\* A connected client that is sent frames with and without a type.
NextTyped ==
    \/ \E e \in Events : On(e, "f")
    \/ On(<<"a">>, "g")
    \/ Connect
    \/ SocketConnect
    \/ \E p \in TypedPayloads, follow \in BOOLEAN : SocketRaw(p, follow)

SpecTyped == Init /\ [][NextTyped]_vars

\* What a chunk is made of: well-formed frames (of event a with one
\* argument, of event b with none) and payloads that are not frames.
ChunkItems ==
    {[ok |-> TRUE, event |-> <<"a">>, args |-> <<Num(<<"1">>)>>,
      text |-> InboundFrame(<<"a">>, <<Num(<<"1">>)>>)],
     [ok |-> TRUE, event |-> <<"b">>, args |-> <<>>,
      text |-> InboundFrame(<<"b">>, <<>>)]}
    \cup {[ok |-> FALSE, event |-> <<>>, args |-> <<>>, text |-> p] :
            p \in {Payload_invalid, Payload_notJSON, Payload_null}}

\* The text of a chunk: each item followed by the delimiter.
RECURSIVE ChunkText(_)
ChunkText(items) ==
    IF items = <<>> THEN <<>>
    ELSE Head(items).text \o delimiter \o ChunkText(Tail(items))

\* The socket emits 'data' with a chunk of several whole frames.
SocketFrames(items) ==
    /\ conn = "Connected"
    /\ Commit(parsePayload(Cur, ChunkText(items)), Op("socketFrames", items))
    /\ UNCHANGED <<options, delimiter, conn, connectHook, stream>>

\* A connected client with plain listeners that is sent chunks.
NextChunk ==
    \/ \E e \in Events : On(e, "f")
    \/ On(<<"a">>, "g")
    \/ Connect
    \/ SocketConnect
    \/ \E k \in 1..MaxFrames :
         \E items \in [1..k -> ChunkItems] : SocketFrames(items)

SpecChunk == Init /\ [][NextChunk]_vars

\* A well-formed frame of event a and its delimiter, to be received in two
\* parts.
FrameCut == InboundFrame(<<"a">>, <<>>) \o delimiter

\* The socket emits 'data' with the first k characters of the frame: the
\* delimiter is not whole in them.
SocketFragment(k) ==
    /\ conn = "Connected"
    /\ k \in 1..(Len(FrameCut) - 1)
    /\ Commit(parsePayload(Cur, SubSeq(FrameCut, 1, k)),
              Op("socketFragment", <<>>))
    /\ fragment' = [text |-> SubSeq(FrameCut, 1, k), closed |-> FALSE]
    /\ UNCHANGED <<options, delimiter, conn, connectHook, wire, sent,
                   decoded>>

\* The socket emits 'data' with the characters that follow the fragment
\* in the frame and, when follow, with a whole frame of event b.
SocketRest(follow) ==
    /\ conn = "Connected"
    /\ fragment.text # <<>>
    /\ Commit(parsePayload(Cur,
                 SubSeq(FrameCut, Len(fragment.text) + 1, Len(FrameCut))
                 \o (IF follow THEN InboundFrame(<<"b">>, <<>>) \o delimiter
                     ELSE <<>>)),
              Op(IF follow THEN "socketRestThen" ELSE "socketRest", <<>>))
    /\ UNCHANGED <<options, delimiter, conn, connectHook, stream>>

\* A client that receives a frame in two parts, on one connection or on
\* two.
NextReconnect ==
    \/ \E e \in Events : On(e, "f")
    \/ Connect
    \/ SocketConnect
    \/ SocketClose
    \/ \E k \in 1..(Len(FrameCut) - 1) : SocketFragment(k)
    \/ \E follow \in BOOLEAN : SocketRest(follow)

SpecReconnect == Init /\ [][NextReconnect]_vars

\* Event names for the order of the replay: two that are array indices
\* (10 follows 2 by value, precedes it as text) and two that are not.
OrderEvents == Events \cup {<<"2">>, <<"1", "0">>}

\* Listeners added and removed on these events, and the connection made.
NextOrder ==
    \/ \E e \in OrderEvents : On(e, "f")
    \/ \E e \in OrderEvents : RemoveListener(e, "f")
    \/ Connect
    \/ SocketConnect

SpecOrder == Init /\ [][NextOrder]_vars

\* The functions of the client that the lists of overrides leave out or
\* name in vain. addListener is EventEmitter's own function (it adds the
\* listener without calling this.on), so no check follows it.
client_addListener(M, event, entry) ==
    EE_addListener(M, event, entry, FALSE)

\* off, where EventEmitter has it, is EventEmitter's removeListener.
client_off(M, event, f) == EE_removeListener(M, event, f)

\* A call of a function that is undefined: a TypeError.
TypeError(M) == [M EXCEPT !.threw = TRUE]

\* The override named addEventListener calls the function of that name of
\* the prototype, which EventEmitter does not have.
client_addEventListener(M, event, entry) == TypeError(M)

\* The name the template strings and the registry give to an event that
\* is undefined.
Chars_undefined == <<"u", "n", "d", "e", "f", "i", "n", "e", "d">>

\* client.removeAllListeners(): the override passes its undefined event
\* on, so EventEmitter's function is called with one argument and removes
\* the listeners of the event of that name; then the check of the count.
client_removeAllListeners_noEvent(M) ==
    client_removeAllListeners(M, Chars_undefined)

AddListener(e, f) ==
    /\ CanAdd
    /\ Commit(client_addListener(Cur, e, Listener(f)), Op("addListener", e))
    /\ UNCHANGED <<options, delimiter, conn, connectHook, stream>>

AddEventListener(e, f) ==
    /\ Commit(client_addEventListener(Cur, e, Listener(f)),
              Op("addEventListener", e))
    /\ UNCHANGED <<options, delimiter, conn, connectHook, stream>>

\* client.off(e, f): EventEmitter's removeListener in a Node that has off,
\* a TypeError in one that has not.
Off(e, f) ==
    /\ \/ Commit(client_off(Cur, e, f), Op("off", e))
       \/ Commit(TypeError(Cur), Op("off", e))
    /\ UNCHANGED <<options, delimiter, conn, connectHook, stream>>

RemoveAllListeners_noEvent ==
    /\ Commit(client_removeAllListeners_noEvent(Cur),
              Op("removeAllListeners()", <<>>))
    /\ UNCHANGED <<options, delimiter, conn, connectHook, stream>>

\* Every function of the client that adds or removes listeners, on a
\* client that connects and reconnects.
NextInterface ==
    \/ \E e \in Events : On(e, "f")
    \/ \E e \in Events : AddListener(e, "g")
    \/ AddEventListener(<<"a">>, "f")
    \/ PrependListener(<<"a">>, "g")
    \/ Once(<<"a">>, "f")
    \/ PrependOnceListener(<<"a">>, "f")
    \/ \E e \in Events, f \in Fns : RemoveListener(e, f)
    \/ \E e \in Events, f \in Fns : Off(e, f)
    \/ \E e \in Events : RemoveAllListeners(e)
    \/ RemoveAllListeners_noEvent
    \/ Connect \/ SocketConnect \/ SocketClose

SpecInterface == Init /\ [][NextInterface]_vars

\* The inputs the encoders of utils.js are called with: event names (one
\* with a double quote, one with a backslash), argument lists, and a
\* delimiter or none.
EncodeEvents ==
    Events \cup {<<"n", "e", "w", "-", "u", "s", "e", "r">>,
                 <<"a", Q, "b">>, <<"a", "\\", "b">>}

EncodeArgLists ==
    ArgLists \cup {<<Null, Arr(<<Num(<<"1">>), Num(<<"2">>)>>)>>,
                   <<Str(<<"a", Q>>)>>}

EncodeDelimiters ==
    {NoDelimiter, <<"!", "!", "!">>, <<"!">>, <<";", ";">>}

\* A call of one of the encoders, with what it was called with.
Called(fn, e, args, d) ==
    Op(fn, [event |-> e, args |-> args, delimiter |-> d])

\* utils.createSubscribe({ event: e, delimiter: d })
CreateSubscribe(e, d) ==
    /\ op' = Called("createSubscribe", e, <<>>, d)
    /\ opRet' = createSubscribe(e, d)
    /\ UNCHANGED <<options, delimiter, protoEvents, hasOwn, ownEvents,
                   eventsCount, conn, connectHook, peername, opWrites,
                   opCalls, opThrew, stream>>

\* utils.createUnsubscribe({ event: e, delimiter: d })
CreateUnsubscribe(e, d) ==
    /\ op' = Called("createUnsubscribe", e, <<>>, d)
    /\ opRet' = createUnsubscribe(e, d)
    /\ UNCHANGED <<options, delimiter, protoEvents, hasOwn, ownEvents,
                   eventsCount, conn, connectHook, peername, opWrites,
                   opCalls, opThrew, stream>>

\* utils.createBroadcast({ event: e, args, delimiter: d })
CreateBroadcast(e, args, d) ==
    /\ op' = Called("createBroadcast", e, args, d)
    /\ opRet' = createBroadcast(e, args, d)
    /\ UNCHANGED <<options, delimiter, protoEvents, hasOwn, ownEvents,
                   eventsCount, conn, connectHook, peername, opWrites,
                   opCalls, opThrew, stream>>

\* The encoders called with each of the inputs.
NextEncode ==
    \/ \E e \in EncodeEvents, d \in EncodeDelimiters : CreateSubscribe(e, d)
    \/ \E e \in EncodeEvents, d \in EncodeDelimiters : CreateUnsubscribe(e, d)
    \/ \E e \in EncodeEvents, args \in EncodeArgLists, d \in EncodeDelimiters :
         CreateBroadcast(e, args, d)

SpecEncode == Init /\ [][NextEncode]_vars

----------------------------------------------------------------------------
(* The claims.  Frames are written out as the text the documentation gives. *)

Text_subscribe(e) ==
    <<"{", Q, "t", "y", "p", "e", Q, ":", Q, "s", "u", "b", "s", "c", "r",
      "i", "b", "e", Q, ",", Q, "e", "v", "e", "n", "t", Q, ":", Q>>
    \o e \o <<Q, "}">>

Text_unsubscribe(e) ==
    <<"{", Q, "t", "y", "p", "e", Q, ":", Q, "u", "n", "s", "u", "b", "s",
      "c", "r", "i", "b", "e", Q, ",", Q, "e", "v", "e", "n", "t", Q, ":", Q>>
    \o e \o <<Q, "}">>

\* The JSON text of the argument lists of the model: of no argument, of
\* 1, "2", true, {"n":"l"}, of null, [1,2] and of the string a".
Text_args(args) ==
    IF args = <<>> THEN <<"[", "]">>
    ELSE IF Len(args) = 2
    THEN <<"[", "n", "u", "l", "l", ",", "[", "1", ",", "2", "]", "]">>
    ELSE IF Len(args) = 1
    THEN <<"[", Q, "a", "\\", Q, Q, "]">>
    ELSE <<"[", "1", ",", Q, "2", Q, ",", "t", "r", "u", "e", ",",
           "{", Q, "n", Q, ":", Q, "l", Q, "}", "]">>

Text_broadcast(e, args) ==
    <<"{", Q, "t", "y", "p", "e", Q, ":", Q, "b", "r", "o", "a", "d", "c",
      "a", "s", "t", Q, ",", Q, "e", "v", "e", "n", "t", Q, ":", Q>>
    \o e \o <<Q, ",", Q, "a", "r", "g", "s", Q, ":">> \o Text_args(args)
    \o <<"}">>

\* client.listenerCount(e) and client.listeners(e), in the current state.
ListenerCount(e) == EE_listenerCount(Cur, e)
Listeners(e)     == Get(Visible(Cur), e)

\* How many invocations of function f a handler made.
TimesCalled(calls, f) == Cardinality({i \in 1..Len(calls) : calls[i].fn = f})
TimesListed(list, f)  == Cardinality({i \in 1..Len(list) : list[i].fn = f})

\* The frames in what a handler wrote: its writes concatenated and cut at
\* the delimiter (the last piece is what follows the last delimiter).
Pieces(writes)        == Split(Flatten(writes), delimiter)
FramesWritten(writes) == SubSeq(Pieces(writes), 1, Len(Pieces(writes)) - 1)
TimesWritten(writes, frame) ==
    Cardinality({i \in 1..Len(FramesWritten(writes)) :
                    FramesWritten(writes)[i] = frame})

\* The writes are a bulk replay: whole frames only, one subscribe frame
\* for each event that has a listener, and no other frame.
IsReplay(writes) ==
    /\ Pieces(writes)[Len(Pieces(writes))] = <<>>
    /\ \A e \in Events :
         TimesWritten(writes, Text_subscribe(e)) =
           IF ListenerCount(e) >= 1 THEN 1 ELSE 0
    /\ Len(FramesWritten(writes)) =
         Cardinality({e \in Events : ListenerCount(e) >= 1})

\* C1: a client that has never been connected (the socket's 'connect'
\* listener has not run yet) makes no write, whatever is added, removed or
\* emitted: no handler of such a client has written anything.
C1_NoWriteBeforeConnected == connectHook => opWrites = <<>>

C1_Witness ==
    /\ connectHook
    /\ conn = "Connecting"
    /\ op.kind = "emit"
    /\ Len(opCalls) = 2

\* C2: while connected, an on or prependListener call after which the
\* event has exactly one listener (it had none before) has made exactly one
\* write, the subscribe frame of the event followed by the delimiter.
C2_FirstListenerSubscribes ==
    (/\ op.kind \in {"on", "prependListener"}
     /\ conn = "Connected"
     /\ ListenerCount(op.event) = 1)
    => opWrites = << Text_subscribe(op.event) \o delimiter >>

C2_Witness ==
    /\ op.kind = "prependListener"
    /\ conn = "Connected"
    /\ ListenerCount(op.event) = 1
    /\ Len(opWrites) = 1

\* C3: while connected, a removeListener call that takes the event from
\* one listener to none makes exactly one write, the unsubscribe frame of
\* the event followed by the delimiter; one that leaves the event with a
\* listener makes no write.
C3_LastListenerUnsubscribes ==
    [][\A e \in Events, f \in Fns :
         (conn = "Connected" /\ RemoveListener(e, f)) =>
           /\ (ListenerCount(e) = 1 /\ ListenerCount(e)' = 0)
                => opWrites' = << Text_unsubscribe(e) \o delimiter >>
           /\ ListenerCount(e)' >= 1 => opWrites' = <<>>]_vars

C3_Witness ==
    /\ op.kind = "removeListener"
    /\ conn = "Connected"
    /\ ListenerCount(op.event) = 0
    /\ opWrites = << Text_unsubscribe(op.event) \o delimiter >>

\* C4: while connected, adding a listener to an event that already has
\* one makes no write.
C4_LaterListenersSilent ==
    (/\ op.kind \in {"on", "prependListener"}
     /\ conn = "Connected"
     /\ ListenerCount(op.event) >= 2)
    => opWrites = <<>>

C4_Witness ==
    /\ op.kind = "on"
    /\ conn = "Connected"
    /\ ListenerCount(op.event) = MaxListeners

\* C5: when the socket connects for the first time, what the client writes
\* is one subscribe frame for each event that has a listener then, and
\* nothing else.
C5_FirstConnectReplays ==
    [][(SocketConnect /\ connectHook) => IsReplay(opWrites')]_vars

C5_Witness ==
    /\ op.kind = "socketConnect"
    /\ hasOwn
    /\ ListenerCount(<<"a">>) = 2
    /\ ListenerCount(<<"b">>) = 0
    /\ Len(opWrites) = 1

\* C6: every time the socket connects, a reconnection included, the client
\* writes the bulk replay of the events that have a listener.
C6_EveryConnectReplays ==
    [][SocketConnect => IsReplay(opWrites')]_vars

\* C7: once the client has been handed every character the server wrote,
\* in pieces of any size, the payloads it has decoded are the payloads the
\* server sent, in order.
C7_DecoderRoundTrip == (wire = <<>>) => decoded = sent

\* C8 as claimed: while connected, an emit call makes exactly one write,
\* the broadcast frame followed by the delimiter.
C8_EmitWritesOnce ==
    [][\A e \in Events, args \in ArgLists :
         (conn = "Connected" /\ Emit(e, args)) =>
           opWrites' = << Text_broadcast(e, args) \o delimiter >>]_vars

\* C8 as amended: while connected, an emit call writes the broadcast frame
\* followed by the delimiter exactly once, as its last write; it is the
\* only write of the call unless the call leaves the event without
\* listeners (its once listeners have fired), and then the unsubscribe
\* frame of the event is written before it.
C8_EmitBroadcastsOnce ==
    [][\A e \in Events, args \in ArgLists :
         (conn = "Connected" /\ Emit(e, args)) =>
           opWrites' =
             (IF ListenerCount(e) >= 1 /\ ListenerCount(e)' = 0
              THEN << Text_unsubscribe(e) \o delimiter >> ELSE <<>>)
             \o << Text_broadcast(e, args) \o delimiter >>]_vars

C8_Witness ==
    /\ op.kind = "emit"
    /\ conn = "Connected"
    /\ Len(opCalls) = 2
    /\ Len(opWrites) = 2

\* C9: in every connection state, emit(e, args) invokes each listener of e
\* exactly once, within the call, with event e and exactly the arguments
\* args, and invokes nothing else.
C9_EmitInvokesListeners ==
    [][\A e \in Events, args \in ArgLists :
         Emit(e, args) =>
           /\ \A f \in Fns :
                TimesCalled(opCalls', f) = TimesListed(Listeners(e), f)
           /\ \A i \in 1..Len(opCalls') :
                opCalls'[i].event = e /\ opCalls'[i].args = args]_vars

C9_Witness ==
    /\ op.kind = "emit"
    /\ conn = "Disconnected"
    /\ Len(opCalls) = 2
    /\ opCalls[1].fn # opCalls[2].fn
    /\ opCalls[1].args # <<>>

\* C10: while connected, a well-formed frame of event x with arguments
\* args invokes each listener the client has on x exactly once, with
\* exactly those arguments, and no listener of another event.
C10_InboundInvokesListeners ==
    [][\A x \in Events, args \in ArgLists :
         SocketData(x, args) =>
           /\ \A f \in Fns :
                TimesCalled(opCalls', f) = TimesListed(Listeners(x), f)
           /\ \A i \in 1..Len(opCalls') :
                opCalls'[i].event = x /\ opCalls'[i].args = args]_vars

\* Whether a list of listeners holds one registered with once.
HasOnce(list) == \E i \in 1..Len(list) : list[i].once

C12_NoStringEventIgnored ==
    [][\A p \in NoEventPayloads :
         SocketRaw(p, FALSE) => opCalls' = <<>> /\ opWrites' = <<>>]_vars

C12_Witness ==
    /\ op = Op("socketRaw", Payload_invalid)
    /\ ListenerCount(<<"a">>) >= 1
    /\ opCalls = <<>>
    /\ opWrites = <<>>

\* C13: the handling of an inbound chunk never throws, whatever the
\* payload, and a payload that is not a valid frame does not keep the
\* well-formed frame that follows it in the chunk from being dispatched.
C13_InboundNeverThrows ==
    /\ op.kind \in {"socketRaw", "socketRawThen"} => ~opThrew
    /\ (op.kind = "socketRawThen" /\ op.event \in NoEventPayloads /\ ~hasOwn)
         => Len(opCalls) = ListenerCount(<<"a">>)
\* A plain registry's list after removeListener(f): without the last
\* entry that is f or wraps f.
PlainRemove(list, f) ==
    LET hits == {i \in 1..Len(list) : list[i].fn = f}
    IN  IF hits = {} THEN list
        ELSE LET last == CHOOSE i \in hits : \A j \in hits : j <= i
             IN  [i \in 1..(Len(list) - 1) |->
                    IF i < last THEN list[i] ELSE list[i + 1]]

\* The listeners of every event but e are left as they are.
OthersKept(e) == \A d \in Events \ {e} : Listeners(d)' = Listeners(d)

C15_ReturnsAsRegistry ==
    [][/\ \A e \in Events, f \in Fns :
            (\/ On(e, f) \/ PrependListener(e, f) \/ RemoveListener(e, f)
             \/ RemoveAllListeners(e)) => opRet' = This
       /\ \A e \in Events, args \in ArgLists :
            Emit(e, args) => opRet' = Bool(Listeners(e) # <<>>)]_vars

\* The client's functions that add, remove and emit.
ClientCalls ==
    {"on", "prependListener", "once", "prependOnceListener",
     "removeListener", "removeAllListeners", "emit"}

\* C16: once the connection of a client that was connected has closed,
\* no add, remove or emit writes to the socket or throws.
C16_GatedAfterClose ==
    (~connectHook /\ conn = "Disconnected" /\ op.kind \in ClientCalls)
    => opWrites = <<>> /\ ~opThrew

\* C17: when the connection of a connected client closes, nothing is
\* written and the listeners of every event stay as they are.
C17_CloseWritesNothing ==
    [][(conn = "Connected" /\ SocketClose) =>
         /\ opWrites' = <<>>
         /\ \A e \in Events : Listeners(e)' = Listeners(e)]_vars

C17_Witness ==
    /\ op.kind = "socketClose"
    /\ peername
    /\ ListenerCount(<<"a">>) >= 1
    /\ ListenerCount(<<"b">>) >= 1

\* C18: while connected, a once or prependOnceListener call after which
\* the event has exactly one listener has made exactly one write, the
\* subscribe frame of the event followed by the delimiter.
C18_FirstOnceSubscribesOnce ==
    (/\ op.kind \in {"once", "prependOnceListener"}
     /\ conn = "Connected"
     /\ ListenerCount(op.event) = 1)
    => opWrites = << Text_subscribe(op.event) \o delimiter >>

\* Whether string s ends with string d.
EndsWith(s, d) == Len(s) >= Len(d) /\ SubSeq(s, Len(s) - Len(d) + 1, Len(s)) = d

\* C19: the client's delimiter is the delimiter option when that is a
\* string and "@@@" otherwise; every write is made of whole frames that
\* end with it; and a frame received is dispatched exactly when the text
\* that follows it is that delimiter.
C19_OneDelimiter ==
    /\ delimiter = IF options.isString THEN options.delimiter
                   ELSE <<"@", "@", "@">>
    /\ \A i \in 1..Len(opWrites) :
         /\ EndsWith(opWrites[i], delimiter)
         /\ Len(FramesWritten(<<opWrites[i]>>)) >= 1
         /\ \A k \in 1..Len(FramesWritten(<<opWrites[i]>>)) :
              EndsWith(FramesWritten(<<opWrites[i]>>)[k], <<"}">>)
    /\ (op.kind = "socketText" /\ ~hasOwn) =>
         Len(opCalls) = IF op.event = delimiter
                        THEN ListenerCount(<<"a">>) ELSE 0

C19_Witness ==
    /\ options.isString
    /\ op = Op("socketText", <<"!">>)
    /\ peername
    /\ Len(opCalls) = 2

\* C20: parseJSON gives an object for every text: the object parsed, or
\* an empty object for any text that does not parse into an object.
C20_ParseJSONGivesObject ==
    op.kind \in {"socketRaw", "socketRawThen"}
    => Kind(parseJSON(op.event)) = "obj"
\* The delimiter an encoder's result ends with: the one passed, "@@@"
\* when none is passed.
Text_delimiter(d) == IF d = NoDelimiter THEN <<"@", "@", "@">> ELSE d

\* C21: createSubscribe returns {"type":"subscribe","event":"<event>"}
\* followed by the delimiter, createUnsubscribe the same with the type
\* "unsubscribe"; the delimiter is "@@@" when none is passed.
C21_SubscribePayloads ==
    /\ op.kind = "createSubscribe" =>
         opRet = Text_subscribe(op.event.event)
                 \o Text_delimiter(op.event.delimiter)
    /\ op.kind = "createUnsubscribe" =>
         opRet = Text_unsubscribe(op.event.event)
                 \o Text_delimiter(op.event.delimiter)

C21_Witness ==
    /\ op.kind = "createUnsubscribe"
    /\ op.event.delimiter = NoDelimiter
    /\ op.event.event = <<"n", "e", "w", "-", "u", "s", "e", "r">>

\* C22: createBroadcast returns {"type":"broadcast","event":"<event>",
\* "args":<the JSON text of the arguments, in their order>} followed by
\* the delimiter.
C22_BroadcastPayload ==
    op.kind = "createBroadcast" =>
      opRet = Text_broadcast(op.event.event, op.event.args)
              \o Text_delimiter(op.event.delimiter)

C22_Witness ==
    /\ op.kind = "createBroadcast"
    /\ Len(op.event.args) = 4
    /\ op.event.delimiter = <<"!", "!", "!">>
\* The events that have a listener, and the server's view after the frames
\* of a handler: a subscribe frame adds its event to the view, an
\* unsubscribe frame removes it.
Active == {e \in Events : ListenerCount(e) > 0}

RECURSIVE ApplyFrames(_, _)
ApplyFrames(S, frames) ==
    IF frames = <<>> THEN S
    ELSE ApplyFrames(
           (S \cup {e \in Events : Head(frames) = Text_subscribe(e)})
              \ {e \in Events : Head(frames) = Text_unsubscribe(e)},
           Tail(frames))

\* The server's view before a step: empty when the step establishes the
\* connection, the events that have a listener otherwise.
ViewBefore == IF conn = "Connected" THEN Active ELSE {}

\* C23: whenever the client is connected, the server's view of the
\* subscriptions is the set of events that have a listener. As a step: a
\* handler that leaves the client connected takes a view that agreed with
\* the listeners (the empty view of a new connection) to one that agrees.
C23_ServerViewConsistent ==
    [][conn' = "Connected" =>
         ApplyFrames(ViewBefore, FramesWritten(opWrites')) = Active']_vars

\* The same for every handler but the one of a reconnection.
C23_ConsistentUntilReconnect ==
    [][(conn' = "Connected" /\ ~(SocketConnect /\ ~connectHook)) =>
         ApplyFrames(ViewBefore, FramesWritten(opWrites')) = Active']_vars
\* A handler that adds or removes listeners has run.
RegistryKinds ==
    {"on", "prependListener", "once", "prependOnceListener",
     "removeListener", "removeAllListeners"}

\* C24: while connected, a call that adds or removes listeners writes a
\* subscribe frame for an event only when it takes the event from no
\* listener to one, and an unsubscribe frame only when it takes the event
\* from a listener to none; every other call writes no such frame.
C24_FramesOnlyOnTransition ==
    [][(conn = "Connected" /\ op'.kind \in RegistryKinds) =>
         \A e \in Events :
           /\ TimesWritten(opWrites', Text_subscribe(e)) > 0
                => (ListenerCount(e) = 0 /\ ListenerCount(e)' >= 1)
           /\ TimesWritten(opWrites', Text_unsubscribe(e)) > 0
                => (ListenerCount(e) >= 1 /\ ListenerCount(e)' = 0)]_vars

\* The same for every call but a remove on an event without listeners.
C24_ExceptRemoveOnEmpty ==
    [][(/\ conn = "Connected"
        /\ op'.kind \in RegistryKinds
        /\ ~(/\ op'.kind \in {"removeListener", "removeAllListeners"}
              /\ ListenerCount(op'.event) = 0)) =>
         \A e \in Events :
           /\ TimesWritten(opWrites', Text_subscribe(e)) > 0
                => (ListenerCount(e) = 0 /\ ListenerCount(e)' >= 1)
           /\ TimesWritten(opWrites', Text_unsubscribe(e)) > 0
                => (ListenerCount(e) >= 1 /\ ListenerCount(e)' = 0)]_vars
\* C25: while connected, a first listener added through any function of
\* the client that adds listeners yields a subscribe frame for the event,
\* and a last listener removed through any function that removes
\* listeners yields an unsubscribe frame for it.
C25_HookCoversEveryFunction ==
    [][conn = "Connected" =>
         \A e \in Events :
           /\ (ListenerCount(e) = 0 /\ ListenerCount(e)' >= 1)
                => TimesWritten(opWrites', Text_subscribe(e)) >= 1
           /\ (ListenerCount(e) >= 1 /\ ListenerCount(e)' = 0)
                => TimesWritten(opWrites', Text_unsubscribe(e)) >= 1]_vars

\* The same for the functions the client overrides.
C25_HookCoversOverrides ==
    [][(conn = "Connected" /\ op'.kind \in RegistryKinds) =>
         \A e \in Events :
           /\ (ListenerCount(e) = 0 /\ ListenerCount(e)' >= 1)
                => TimesWritten(opWrites', Text_subscribe(e)) >= 1
           /\ (ListenerCount(e) >= 1 /\ ListenerCount(e)' = 0)
                => TimesWritten(opWrites', Text_unsubscribe(e)) >= 1]_vars
\* C27: while connected, removeAllListeners() without an event name
\* removes the listeners of every event and writes an unsubscribe frame
\* for each event that had a listener, and no other frame.
C27_RemoveAllUnsubscribesAll ==
    [][(conn = "Connected" /\ RemoveAllListeners_noEvent) =>
         /\ \A e \in Events : ListenerCount(e)' = 0
         /\ \A e \in Events :
              TimesWritten(opWrites', Text_unsubscribe(e)) =
                IF ListenerCount(e) >= 1 THEN 1 ELSE 0
         /\ Len(FramesWritten(opWrites')) =
              Cardinality({e \in Events : ListenerCount(e) >= 1})]_vars
\* C26: while connected, removeAllListeners(e) on an event that has
\* listeners, however many, removes them all and makes exactly one write,
\* the unsubscribe frame of e followed by the delimiter; on an event
\* without listeners it changes no list of listeners.
C26_RemoveAllUnsubscribesOnce ==
    [][\A e \in Events :
         (conn = "Connected" /\ RemoveAllListeners(e)) =>
           /\ ListenerCount(e) >= 1 =>
                /\ ListenerCount(e)' = 0
                /\ opWrites' = << Text_unsubscribe(e) \o delimiter >>
           /\ ListenerCount(e) = 0 => Listeners(e)' = <<>>
           /\ OthersKept(e)]_vars

\* The registry divides when the call leaves the client without events:
\* the prototype's object keeps the list that was removed.
C26_Witness ==
    /\ op.kind = "removeAllListeners"
    /\ conn = "Connected"
    /\ hasOwn
    /\ Len(Get(protoEvents, op.event)) = MaxListeners
    /\ ListenerCount(op.event) = 0
    /\ opWrites = << Text_unsubscribe(op.event) \o delimiter >>
\* The only listener of event e is a once listener that has not fired.
OnlyOnce(e) ==
    /\ Len(Listeners(e)) = 1
    /\ Listeners(e)[1].once
    /\ ~Listeners(e)[1].fired

\* C28: while connected, when the only listener of event e is a once
\* listener and it fires, through client.emit or through an inbound
\* broadcast of e (which reaches the listener as long as the client reads
\* the registry of its prototype), the listener is called once, e is left
\* without listeners and exactly one unsubscribe frame of e is written.
C28_OnceFiredUnsubscribes ==
    [][\A e \in Events, args \in ArgLists :
         (/\ conn = "Connected"
          /\ OnlyOnce(e)
          /\ Emit(e, args) \/ (SocketData(e, args) /\ ~hasOwn)) =>
           /\ TimesCalled(opCalls', Listeners(e)[1].fn) = 1
           /\ ListenerCount(e)' = 0
           /\ TimesWritten(opWrites', Text_unsubscribe(e)) = 1]_vars

\* An inbound broadcast has fired the only listener of its event, while
\* the other event keeps the registry of the prototype in use.
C28_Witness ==
    /\ op.kind = "socketData"
    /\ conn = "Connected"
    /\ ~hasOwn
    /\ ListenerCount(op.event) = 0
    /\ Len(opCalls) = 1
    /\ opWrites = << Text_unsubscribe(op.event) \o delimiter >>
\* The subscribe frames of event e that the first connection calls for in
\* a step: one when the first 'connect' event finds e with a listener,
\* one when a call on the connected client gives e its first listener,
\* none for a call made before the first 'connect' event.
SubscribesDue(e) ==
    IF connectHook
    THEN IF SocketConnect /\ ListenerCount(e) >= 1 THEN 1 ELSE 0
    ELSE IF ListenerCount(e) = 0 /\ ListenerCount(e)' >= 1 THEN 1 ELSE 0

\* C29: a first listener of event e that is registered when the first
\* connection is acknowledged, or is added on the connected client, gets
\* exactly one subscribe frame: calls made before the connect call or
\* while connecting write nothing, the replay writes one frame for e, and
\* a call that gives e its first listener afterwards writes one frame.
C29_FirstListenerSubscribedOnce ==
    [][(/\ connectHook \/ conn = "Connected"
        /\ \/ SocketConnect
           \/ op'.kind \in {"on", "prependListener", "once",
                             "prependOnceListener"}) =>
         \A e \in Events :
           TimesWritten(opWrites', Text_subscribe(e)) = SubscribesDue(e)]_vars

\* The same for the calls of on and prependListener.
C29_PlainListenerSubscribedOnce ==
    [][(/\ connectHook \/ conn = "Connected"
        /\ \/ SocketConnect
           \/ op'.kind \in {"on", "prependListener"}) =>
         \A e \in Events :
           TimesWritten(opWrites', Text_subscribe(e)) = SubscribesDue(e)]_vars
\* C30: the replay of the first 'connect' event is one write that holds
\* one subscribe frame for each event that has a listener, and nothing
\* else; when no event has a listener, nothing is written.
C30_ReplayIsOneWrite ==
    [][(SocketConnect /\ connectHook) =>
         IF Active = {} THEN opWrites' = <<>>
         ELSE Len(opWrites') = 1 /\ IsReplay(opWrites')]_vars

C30_Witness ==
    /\ op.kind = "socketConnect"
    /\ conn = "Connected"
    /\ Active = Events
    /\ Len(opWrites) = 1
    /\ Len(FramesWritten(opWrites)) = 2
\* The event names the replay reads, and the text of a replay of names.
Names == EE_eventNames(Cur)

RECURSIVE ReplayText(_)
ReplayText(names) ==
    IF names = <<>> THEN <<>>
    ELSE Text_subscribe(Head(names)) \o delimiter \o ReplayText(Tail(names))

Without(names, e) == SelectSeq(names, LAMBDA n : n # e)

\* A name that gets its first listener takes its place among the names:
\* a name that is the text of an integer goes after the integers below it,
\* every other name goes last.
WithName(names, e) ==
    IF IsIndex(e)
    THEN SelectSeq(names,
           LAMBDA n : IsIndex(n) /\ IndexValue(n) < IndexValue(e))
         \o <<e>>
         \o SelectSeq(names,
           LAMBDA n : ~(IsIndex(n) /\ IndexValue(n) < IndexValue(e)))
    ELSE Append(names, e)

FrameTexts ==
    {Text_subscribe(e) : e \in Events}
    \cup {Text_unsubscribe(e) : e \in Events}
    \cup {Text_broadcast(e, args) : e \in Events, args \in ArgLists}

\* C32: every payload handed to socket.write is not empty and is made of
\* one or more whole frames (a subscribe, an unsubscribe or a broadcast
\* frame), each followed by the delimiter, with nothing after the last.
C32_WritesAreWholeFrames ==
    \A i \in 1..Len(opWrites) :
      LET pieces == Split(opWrites[i], delimiter)
      IN  /\ opWrites[i] # <<>>
          /\ Len(pieces) >= 2
          /\ pieces[Len(pieces)] = <<>>
          /\ \A k \in 1..(Len(pieces) - 1) : pieces[k] \in FrameTexts

\* A replay of two events: one write of two frames.
C32_Witness ==
    /\ op.kind = "socketConnect"
    /\ Len(opWrites) = 1
    /\ Len(Split(opWrites[1], delimiter)) = 3
    /\ HasOnce(Listeners(<<"a">>))
\* The functions of a list of listeners and of a handler's calls, in order.
FnsListed(list) == [i \in 1..Len(list) |-> list[i].fn]
FnsCalled(calls) == [i \in 1..Len(calls) |-> calls[i].fn]

\* C33: an inbound frame of event x invokes exactly the listeners that
\* client.listeners(x) reports when it arrives, in their order, whatever
\* adds and removes were made before.
C33_InboundSeesApiRegistry ==
    [][\A x \in Events, args \in ArgLists :
         SocketData(x, args) =>
           FnsCalled(opCalls') = FnsListed(Listeners(x))]_vars

\* The same as long as the client reads the registry of its prototype.
C33_WhileRegistryShared ==
    [][\A x \in Events, args \in ArgLists :
         (SocketData(x, args) /\ ~hasOwn) =>
           FnsCalled(opCalls') = FnsListed(Listeners(x))]_vars
\* The calls a chunk is due: for each well-formed frame, in the order of
\* the chunk, a call of each listener of its event with its arguments.
RECURSIVE CallsDue(_)
CallsDue(items) ==
    IF items = <<>> THEN <<>>
    ELSE (IF Head(items).ok
          THEN [i \in 1..Len(Listeners(Head(items).event)) |->
                  [fn |-> Listeners(Head(items).event)[i].fn,
                   event |-> Head(items).event,
                   args |-> Head(items).args]]
          ELSE <<>>)
         \o CallsDue(Tail(items))

\* C34: a chunk of k whole frames is dispatched within its handling: the
\* listeners are called for each well-formed frame once, in the order of
\* the frames in the chunk, whatever the other payloads of the chunk.
C34_ChunkDispatchedInOrder ==
    [][op'.kind = "socketFrames" => opCalls' = CallsDue(op'.event)]_vars

\* The same for the chunks that do not hold the payload null.
C34_ChunkWithoutNull ==
    [][(/\ op'.kind = "socketFrames"
        /\ \A i \in 1..Len(op'.event) : op'.event[i].text # Payload_null)
         => opCalls' = CallsDue(op'.event)]_vars
\* The fragment ends before the delimiter of its frame: the text that
\* follows it holds that delimiter whole.
DelimiterLeft == Len(fragment.text) <= Len(FrameCut) - Len(delimiter)

\* C35: text received without its delimiter before the connection ended
\* is not put together with the text a later connection receives: the
\* rest of the frame, received after a reconnection, invokes no listener
\* of the frame's event; the only calls are those of a whole frame that
\* follows in the same chunk, made when the rest ends with a delimiter of
\* its own (a rest that is the end of a delimiter is text before that
\* frame).
C35_NoCarryOverReconnect ==
    [][\A follow \in BOOLEAN :
         (SocketRest(follow) /\ fragment.closed) =>
           /\ \A i \in 1..Len(opCalls') : opCalls'[i].event = <<"b">>
           /\ Len(opCalls') = IF follow /\ DelimiterLeft
                              THEN ListenerCount(<<"b">>) ELSE 0]_vars

C35_Witness ==
    /\ op.kind = "socketRestThen"
    /\ fragment.closed
    /\ conn = "Connected"
    /\ ListenerCount(<<"a">>) = 1
    /\ Len(opCalls) = 1
    /\ opCalls[1].event = <<"b">>
\* The arguments a frame of TypedPayloads carries: none when it has no
\* args field, the number 1 otherwise.
ArgsDue(p) ==
    IF p \in {Payload_typeUnsubscribe, Payload_noArgs} THEN <<>>
    ELSE <<Num(<<"1">>)>>

\* C36: a frame of event a is dispatched whatever its type field is
\* (subscribe, unsubscribe, broadcast, a number, none): each listener of
\* a is called once, in order, with the frame's arguments, with no
\* argument when the frame has no args field; nothing is written and
\* nothing is thrown.
C36_TypeIgnored ==
    [][\A p \in TypedPayloads :
         SocketRaw(p, FALSE) =>
           /\ opCalls' = [i \in 1..Len(Listeners(<<"a">>)) |->
                            [fn |-> Listeners(<<"a">>)[i].fn,
                             event |-> <<"a">>,
                             args |-> ArgsDue(p)]]
           /\ opWrites' = <<>>
           /\ ~opThrew']_vars

C36_Witness ==
    /\ op = Op("socketRaw", Payload_typeUnsubscribe)
    /\ ListenerCount(<<"a">>) = 2
    /\ Len(opCalls) = 2
    /\ opCalls[1].args = <<>>
\* C37: while connected, emit(e, args) calls every listener of e and then
\* writes the broadcast frame: the frame is written exactly once and is
\* the last write of the call, and every write before it is one a
\* listener caused while it ran, the unsubscribe frame of e that a once
\* listener's removal makes.
C37_ListenersBeforeBroadcast ==
    [][\A e \in Events, args \in ArgLists :
         (conn = "Connected" /\ Emit(e, args)) =>
           /\ FnsCalled(opCalls') = FnsListed(Listeners(e))
           /\ opWrites' # <<>>
           /\ opWrites'[Len(opWrites')] = Text_broadcast(e, args) \o delimiter
           /\ TimesWritten(opWrites', Text_broadcast(e, args)) = 1
           /\ \A i \in 1..(Len(opWrites') - 1) :
                /\ opWrites'[i] = Text_unsubscribe(e) \o delimiter
                /\ HasOnce(Listeners(e))]_vars

\* A once listener, the only listener of its event, has run in an emit:
\* its unsubscribe frame is written before the broadcast frame.
C37_Witness ==
    /\ op.kind = "emit"
    /\ conn = "Connected"
    /\ Len(opCalls) = 1
    /\ opWrites = << Text_unsubscribe(op.event) \o delimiter,
                     Text_broadcast(op.event, opCalls[1].args) \o delimiter >>
\* The envelope an encoder's result parses to: the result without the
\* delimiter at its end, parsed by utils.parseJSON; and its event field.
Envelope == parseJSON(SubSeq(opRet, 1,
                Len(opRet) - Len(Text_delimiter(op.event.delimiter))))

EnvelopeEvent ==
    IF Kind(Envelope) = "obj"
    THEN Lookup(Val(Envelope), <<"e", "v", "e", "n", "t">>)
    ELSE Absent

EncoderCalls == {"createSubscribe", "createUnsubscribe", "createBroadcast"}

\* C38: for every event name, the result of each encoder, without its
\* delimiter, parses to an envelope whose event field is that name.
C38_EventNameRoundTrip ==
    op.kind \in EncoderCalls => EnvelopeEvent = Str(op.event.event)

\* The same for the names that hold no double quote and no backslash.
C38_PlainNameRoundTrip ==
    (/\ op.kind \in EncoderCalls
     /\ \A i \in 1..Len(op.event.event) :
          op.event.event[i] \notin {Q, "\\"})
    => EnvelopeEvent = Str(op.event.event)

====
